---- MODULE Spec2Model ----
(***************************************************************************)
(* The EVSE side of the SLAC matching session of slac/session.py:          *)
(* SlacSession (the record and reset) and SlacEvseSession (key             *)
(* provisioning, the five matching steps, leave_logical_network).          *)
(*                                                                         *)
(* One matching task runs evse_slac_parm and, when that left the session   *)
(* in state Matching, atten_charac_routine.  Every await of rcv_frame,     *)
(* send_frame and asyncio.sleep is a suspension point: the code between    *)
(* two suspension points is one action.  The supervisor may call           *)
(* leave_logical_network, or cancel the task, while the task is suspended. *)
(* A behaviour holds one matching run, on a session that is fresh or has   *)
(* been through leave_logical_network.                                     *)
(*                                                                         *)
(* Byte strings are sequences of small integers, b"" is << >>, None is     *)
(* << >> and a present Optional value v is <<v>>.  The encoders and        *)
(* decoders of slac.messages are outside this file of the program: a       *)
(* received frame is the record of the fields its decoders return, a sent  *)
(* frame the record of the arguments its encoders are constructed with.    *)
(***************************************************************************)
EXTENDS Integers, Sequences, FiniteSets, TLC

\* ------------------------------------------------------------ bounds
\* calls of evse_set_key (directly or through leave_logical_network)
MaxSetKeys == 2

\* ------------------------------------------------- program constants
STATE_UNMATCHED == 0
STATE_MATCHING == 1
STATE_MATCHED == 2
SLAC_GROUPS == 58
SLAC_RESP_TYPE == 1
HOMEPLUG_MMV == 1
\* time_out_ms default: the value carried on the wire, 600 / 100
SLAC_ATTEN_TIMEOUT == 6
ATTEN_RESULTS_TIMEOUT == 9
\* the per-frame read timeout of cm_sounds_loop, 1 s, in ms
SoundReadTimeoutMs == 1000

\* --------------------------------------------------------- byte values
Bytes(n, k) == [i \in 1..n |-> k]
Empty == << >>
None == << >>
Some(v) == <<v>>

\* get_if_hwaddr(iface): the MAC of the EVSE's interface
HostMac == Bytes(6, 1)
\* bytes.fromhex(EVSE_ID), 17 bytes
EvseId == Bytes(17, 6)
\* the asyncio.Task of the matching run
TaskId == "matching_task"
\* the pev_id a MATCH.REQ carries, 17 bytes
PevId == Bytes(17, 7)
\* what urandom(16) may return
Nmks == {Bytes(16, 8), Bytes(16, 9)}

RECURSIVE SumBytes(_)
SumBytes(b) == IF b = << >> THEN 0 ELSE Head(b) + SumBytes(Tail(b))

\* generate_nid(nmk): 7 bytes derived from the nmk by a hash, the two most
\* significant bits of the last byte cleared
generate_nid(nmk) ==
    [i \in 1..7 |-> IF i = 7 THEN ((SumBytes(nmk) * 31 + i * 17) % 256) % 64
                    ELSE (SumBytes(nmk) * 31 + i * 17) % 256]

Zeros == [g \in 1..SLAC_GROUPS |-> 0]
\* what reset() stores in aag: the dataclasses.Field object that
\* field(default_factory=...) returns, which is no list of integers
DataclassField == << -1 >>

\* hw = slac.utils.half_round applied to num / den: nearest integer, a tie
\* going to the even neighbour
half_round(num, den) ==
    LET q == num \div den
        r == num % den
    IN  IF 2 * r < den THEN q
        ELSE IF 2 * r > den THEN q + 1
        ELSE IF q % 2 = 0 THEN q ELSE q + 1

\* ------------------------------------------------------ received data
\* What one rcv_frame hands to a step: a read timeout, bytes a parser of
\* the step rejects, or a frame with the fields the parsers read.
Frame(mm, src, rid) ==
    [kind |-> "frame", ether_type |-> "HPAV", mmv |-> HOMEPLUG_MMV,
     mm_type |-> mm, src_mac |-> src,
     application_type |-> 0, security_type |-> 0, run_id |-> rid,
     resp_type |-> SLAC_RESP_TYPE, num_sounds |-> 0, forwarding_sta |-> src,
     result |-> 0, pev_id |-> PevId, pev_mac |-> src, num_groups |-> 0,
     aag |-> Zeros]

NoFrame == Frame("none", Empty, Empty)
Timeout == [NoFrame EXCEPT !.kind = "timeout"]
Malformed == [NoFrame EXCEPT !.kind = "malformed"]

\* a frame with one header field spoilt
Spoilt(f) ==
    {[f EXCEPT !.ether_type = "OTHER"], [f EXCEPT !.mmv = 0]}

\* Two vehicles, each with its MAC and the run id it generated.
Pev1 == Bytes(6, 2)
Pev2 == Bytes(6, 3)
Run1 == Bytes(8, 4)
Run2 == Bytes(8, 5)
PevMacs == {Pev1, Pev2}
RunIds == {Run1, Run2}

ParmInputs ==
    {Timeout, Malformed,
     Frame("CM_SLAC_PARM.REQ", Pev1, Run1),
     Frame("CM_SLAC_PARM.REQ", Pev2, Run2),
     Frame("CM_START_ATTEN_CHAR.IND", Pev1, Run1)}

\* num_sounds a START_ATTEN_CHAR.IND may announce
NumSounds == {0, 1, 2}

StartInd(rid, n) ==
    [Frame("CM_START_ATTEN_CHAR.IND", Pev1, rid) EXCEPT !.num_sounds = n]

StartInputs ==
    {Timeout, Malformed}
    \cup {StartInd(rid, n) : rid \in RunIds, n \in NumSounds}
    \cup {[StartInd(Run1, 1) EXCEPT !.application_type = 1],
          [StartInd(Run1, 1) EXCEPT !.security_type = 1],
          [StartInd(Run1, 1) EXCEPT !.resp_type = 0],
          [StartInd(Run1, 1) EXCEPT !.mm_type = "CM_MNBC_SOUND.IND"]}

\* the num_groups and the per-group attenuation a profile may report
ProfileShapes == {<<SLAC_GROUPS, 10>>, <<2, 21>>}

Profile(mac, ng, v) ==
    [Frame("CM_ATTEN_PROFILE.IND", mac, Empty) EXCEPT
        !.num_groups = ng,
        !.aag = [g \in 1..SLAC_GROUPS |-> IF g <= ng THEN v ELSE 0]]

SoundInputs ==
    {Timeout, Malformed}
    \cup {Frame("CM_MNBC_SOUND.IND", src, rid) : src \in PevMacs, rid \in RunIds}
    \cup {Profile(mac, p[1], p[2]) : mac \in PevMacs, p \in ProfileShapes}
    \cup {StartInd(Run1, 1)}
    \cup Spoilt(Frame("CM_MNBC_SOUND.IND", Pev1, Run1))

\* time that may pass before a read of the sound loop returns a frame, in ms
FrameDelays == {0, 600}

AttenRspInputs ==
    {Timeout, Malformed}
    \cup {[Frame("CM_ATTEN_CHAR.RSP", Pev1, rid) EXCEPT !.result = r] :
            rid \in RunIds, r \in {0, 1}}
    \cup {Frame("CM_SLAC_MATCH.REQ", Pev1, Run1)}
    \cup Spoilt(Frame("CM_ATTEN_CHAR.RSP", Pev1, Run1))

MatchInputs ==
    {Timeout, Malformed}
    \cup {[Frame("CM_SLAC_MATCH.REQ", Pev1, rid) EXCEPT !.pev_mac = mac] :
            rid \in RunIds, mac \in PevMacs}
    \cup {Frame("CM_ATTEN_CHAR.RSP", Pev1, Run1)}
    \cup Spoilt(Frame("CM_SLAC_MATCH.REQ", Pev1, Run1))

\* What send_recv_eth may return to evse_set_key: a SET_KEY.CNF with its
\* result byte (0xFF: the PLC refused the key), or bytes that
\* SetKeyCnf.from_bytes rejects with a ValueError.
NoCnf == [parses |-> FALSE, result |-> 0]
SetKeyCnfInputs ==
    {NoCnf, [parses |-> TRUE, result |-> 0], [parses |-> TRUE, result |-> 255]}

\* -------------------------------------------------------- sent frames
\* A frame handed to send_frame, with the constructor arguments the code
\* gives to the Ethernet header and to the payload.
OutFrame(mm, dst, src, rid) ==
    [mm_type |-> mm, dst_mac |-> dst, src_mac |-> src, run_id |-> rid,
     forwarding_sta |-> Empty, source_address |-> Empty,
     num_sounds |-> 0, num_groups |-> None, aag |-> Zeros,
     pev_mac |-> Empty, evse_mac |-> Empty, nid |-> Empty, nmk |-> Empty]

\* -------------------------------------------------------------- state
VARIABLES
    session,              \* the SlacEvseSession record
    task,                 \* the matching task: "none", "running", "returned",
                          \* "raised", "cancelled"
    pc,                   \* the suspension point the matching task is at
    err,                  \* the error a raised task ended with
    step,                 \* the step of the task that ran last
    rcvd,                 \* what that step received
    aag,                  \* cm_sounds_loop's local aag: the per-group sums
    next_frame_expected,  \* cm_sounds_loop's local: the size to read next
    time_elapsed,         \* ms since cm_sounds_loop's time_start
    key_pc,               \* evse_set_key: "idle", "cnf" (awaiting
                          \* send_recv_eth), "settle" (asyncio.sleep)
    key_caller,           \* "set_key" or "leave" (leave_logical_network)
    key_new,              \* evse_set_key's locals nmk and nid
    payload_rcvd,         \* evse_set_key's local: what send_recv_eth returned
    sent,                 \* frames the task of this run has sent, in order
    last_cnf,             \* the MATCH.CNF sent most recently, if any
    run,                  \* what has happened in this run
    n_keys                \* evse_set_key calls started

vars ==
    <<session, task, pc, err, step, rcvd, aag, next_frame_expected,
      time_elapsed, key_pc, key_caller, key_new, payload_rcvd, sent,
      last_cnf, run, n_keys>>

taskVars ==
    <<task, pc, err, step, rcvd, aag, next_frame_expected, time_elapsed,
      sent, last_cnf, run>>

keyVars == <<key_pc, key_caller, key_new, payload_rcvd, n_keys>>

loopVars == <<aag, next_frame_expected, time_elapsed>>

\* SlacSession's dataclass defaults with SlacEvseSession.__init__'s
\* state=STATE_UNMATCHED, evse_mac=host_mac
NewSession ==
    [state |-> STATE_UNMATCHED, nmk |-> Empty, nid |-> Empty,
     forwarding_sta |-> Empty, pev_id |-> None, pev_mac |-> Empty,
     evse_id |-> EvseId, evse_mac |-> HostMac, run_id |-> Empty,
     application_type |-> 0, security_type |-> 0,
     num_start_attn_rcvd |-> 0, num_expected_sounds |-> None,
     num_total_sounds |-> 0, time_out_ms |-> SLAC_ATTEN_TIMEOUT,
     aag |-> Zeros, num_groups |-> None, matching_process_task |-> None]

NewRun ==
    [parm_run_id |-> Empty, parm_src |-> Empty, start_accepted |-> FALSE,
     rsp_ok |-> FALSE, failed |-> {}, accepted |-> {}]

Init ==
    /\ session = NewSession
    /\ task = "none"
    /\ pc = "idle"
    /\ err = "none"
    /\ step = "none"
    /\ rcvd = NoFrame
    /\ aag = Zeros
    /\ next_frame_expected = "CM_MNBC_SOUND_IND"
    /\ time_elapsed = 0
    /\ key_pc = "idle"
    /\ key_caller = "none"
    /\ key_new = [nmk |-> Empty, nid |-> Empty]
    /\ payload_rcvd = NoCnf
    /\ sent = << >>
    /\ last_cnf = None
    /\ run = NewRun
    /\ n_keys = 0

\* ------------------------------------------------ SlacSession.reset
reset(s) ==
    [s EXCEPT !.state = STATE_UNMATCHED,
              !.forwarding_sta = Empty,
              !.pev_id = None,
              !.pev_mac = Empty,
              !.evse_id = EvseId,
              !.evse_mac = Empty,
              !.run_id = Empty,
              !.application_type = 0,
              !.security_type = 0,
              !.num_start_attn_rcvd = 0,
              !.num_expected_sounds = None,
              !.num_total_sounds = 0,
              !.time_out_ms = SLAC_ATTEN_TIMEOUT,
              !.aag = DataclassField,
              !.num_groups = None,
              !.matching_process_task = None]

Unmatched(s) == [s EXCEPT !.state = STATE_UNMATCHED]

\* ------------------------------------- evse_set_key, leave_logical_network
\* The body of evse_set_key up to the await of send_recv_eth: a fresh nmk
\* and the nid derived from it, sent to the PLC in a SET_KEY.REQ.
SetKeyStart(caller, nmk) ==
    /\ key_pc = "idle"
    /\ n_keys < MaxSetKeys
    /\ n_keys' = n_keys + 1
    /\ key_caller' = caller
    /\ key_new' = [nmk |-> nmk, nid |-> generate_nid(nmk)]
    /\ key_pc' = "cnf"
    /\ UNCHANGED <<session, taskVars, payload_rcvd>>

\* the supervisor provisions a key before it starts the matching task
evse_set_key ==
    /\ task = "none"
    /\ \E nmk \in Nmks : SetKeyStart("set_key", nmk)

\* the supervisor leaves the logical network, whatever the task is doing
leave_logical_network ==
    \E nmk \in Nmks : SetKeyStart("leave", nmk)

\* evse_set_key has returned: leave_logical_network goes on to reset()
AfterSetKey(s) == IF key_caller = "leave" THEN reset(s) ELSE s

\* evse_set_key returns, and its caller with it: their locals are gone
SetKeyReturn ==
    /\ session' = AfterSetKey(session)
    /\ key_pc' = "idle"
    /\ key_caller' = "none"
    /\ key_new' = [nmk |-> Empty, nid |-> Empty]
    /\ payload_rcvd' = NoCnf

\* send_recv_eth returned: SetKeyCnf.from_bytes accepts the payload and the
\* new pair is committed (the object from_bytes returns, its result with
\* it, is dropped), or it raises ValueError and the function returns
SetKeyCnf(payload) ==
    /\ key_pc = "cnf"
    /\ IF payload.parses
       THEN /\ session' = [session EXCEPT !.nmk = key_new.nmk,
                                          !.nid = key_new.nid]
            /\ key_pc' = "settle"
            /\ payload_rcvd' = payload
            /\ UNCHANGED <<key_caller, key_new>>
       ELSE SetKeyReturn
    /\ UNCHANGED <<taskVars, n_keys>>

\* asyncio.sleep(SLAC_SETTLE_TIME) is over and evse_set_key returns
SetKeySettled ==
    /\ key_pc = "settle"
    /\ SetKeyReturn
    /\ UNCHANGED <<taskVars, n_keys>>

\* ------------------------------------------------- the matching task
\* the supervisor creates the task and stores it in the session; the task
\* begins evse_slac_parm: reset_socket, then the await of rcv_frame
StartMatching ==
    /\ task = "none"
    /\ key_pc = "idle"
    /\ session' = [session EXCEPT !.matching_process_task = Some(TaskId)]
    /\ task' = "running"
    /\ pc' = "parm_rcv"
    /\ err' = "none"
    /\ step' = "start"
    /\ rcvd' = NoFrame
    /\ sent' = << >>
    /\ run' = NewRun
    /\ UNCHANGED <<loopVars, keyVars, last_cnf>>

\* the task ends by returning to the supervisor
Return ==
    /\ task' = "returned"
    /\ pc' = "done"
    /\ err' = "none"

\* the task ends with an exception that no step catches
Raise(e) ==
    /\ task' = "raised"
    /\ pc' = "done"
    /\ err' = e

\* send_frame: sendeth raises an OSError, or the frame goes out and the
\* task awaits the send
send_frame(frame, next_pc) ==
    \/ /\ sent' = Append(sent, frame)
       /\ pc' = next_pc
       /\ UNCHANGED <<task, err>>
    \/ /\ UNCHANGED sent
       /\ Raise("OSError")

Failed(name) == run' = [run EXCEPT !.failed = @ \cup {name}]

\* the parsers of a step, inside its try, accept what was received
Parsed(f) == f.kind = "frame"

HeaderOk(f) == f.ether_type = "HPAV" /\ f.mmv = HOMEPLUG_MMV

\* ---- evse_slac_parm
SlacParmSaved(s, f) ==
    [s EXCEPT !.application_type = f.application_type,
              !.security_type = f.security_type,
              !.run_id = f.run_id,
              !.pev_mac = f.src_mac,
              !.forwarding_sta = f.src_mac]

SlacParmCnfFrame(s) ==
    [OutFrame("CM_SLAC_PARM.CNF", s.pev_mac, s.evse_mac, s.run_id) EXCEPT
        !.forwarding_sta = s.pev_mac]

evse_slac_parm(f) ==
    /\ task = "running"
    /\ pc = "parm_rcv"
    /\ step' = "evse_slac_parm"
    /\ rcvd' = f
    /\ IF ~Parsed(f) \/ f.mm_type # "CM_SLAC_PARM.REQ"
       THEN /\ Failed("evse_slac_parm")
            /\ UNCHANGED sent
            /\ \/ /\ session' = Unmatched(session)
                  /\ Return
               \/ \* the asyncio.TimeoutError of wait_for is the built-in
                  \* TimeoutError, which the except clause names, from
                  \* Python 3.11 on only: before, it passes the clause
                  /\ f.kind = "timeout"
                  /\ UNCHANGED session
                  /\ Raise("TimeoutError")
       ELSE /\ session' = SlacParmSaved(session, f)
            /\ run' = [run EXCEPT !.parm_run_id = f.run_id,
                                  !.parm_src = f.src_mac]
            /\ send_frame(SlacParmCnfFrame(session'), "parm_send")
    /\ UNCHANGED <<loopVars, keyVars, last_cnf>>

\* the PARM.CNF is out: the state becomes Matching and the supervisor, which
\* finds the state Matching, awaits atten_charac_routine
evse_slac_parm_sent ==
    /\ task = "running"
    /\ pc = "parm_send"
    /\ session' = [session EXCEPT !.state = STATE_MATCHING]
    /\ pc' = "start_rcv"
    /\ UNCHANGED <<task, err, step, rcvd, loopVars, keyVars, sent, last_cnf,
                   run>>

\* ---- cm_start_atten_charac
\* a variant without the run_id test
StartAttenCharOkAnyRun(s, f) ==
    /\ s.application_type = f.application_type
    /\ s.security_type = f.security_type
    /\ f.resp_type = SLAC_RESP_TYPE
    /\ f.mm_type = "CM_START_ATTEN_CHAR.IND"

StartAttenCharOk(s, f) ==
    /\ s.application_type = f.application_type
    /\ s.security_type = f.security_type
    /\ s.run_id = f.run_id
    /\ f.resp_type = SLAC_RESP_TYPE
    /\ f.mm_type = "CM_START_ATTEN_CHAR.IND"

StartAttenCharSaved(s, f) ==
    [s EXCEPT !.num_expected_sounds = Some(f.num_sounds),
              !.time_out_ms = ATTEN_RESULTS_TIMEOUT * 100,
              !.forwarding_sta = f.forwarding_sta]

\* the session as cm_start_atten_charac leaves it
StartAttenCharac(s, f) ==
    IF Parsed(f) /\ StartAttenCharOk(s, f)
    THEN StartAttenCharSaved(s, f)
    ELSE Unmatched(s)

\* the first lines of cm_sounds_loop, up to its first read
SoundsLoopBegin(s) ==
    [s EXCEPT !.aag = Zeros, !.num_total_sounds = 0]

\* cm_start_atten_charac, whatever its outcome, is followed by
\* cm_sounds_loop (atten_charac_routine awaits the one after the other)
cm_start_atten_charac(f) ==
    /\ task = "running"
    /\ pc = "start_rcv"
    /\ step' = "cm_start_atten_charac"
    /\ rcvd' = f
    /\ session' = SoundsLoopBegin(StartAttenCharac(session, f))
    /\ run' = IF Parsed(f) /\ StartAttenCharOk(session, f)
              THEN [run EXCEPT !.start_accepted = TRUE]
              ELSE [run EXCEPT !.failed = @ \cup {"cm_start_atten_charac"}]
    /\ aag' = Zeros
    /\ time_elapsed' = 0
    /\ next_frame_expected' = "CM_MNBC_SOUND_IND"
    /\ pc' = "sounds_rcv"
    /\ UNCHANGED <<task, err, keyVars, sent, last_cnf>>

\* ---- process_sound_frame
\* the exception process_sound_frame raises on f, or "none"
SoundFrameRaises(s, f) ==
    IF /\ f.mm_type = "CM_MNBC_SOUND.IND"
       /\ s.run_id = f.run_id
       /\ s.pev_mac # f.src_mac
    THEN "ValueError"
    ELSE "none"

\* a variant without the mm_type test: any frame that names the vehicle
\* is counted as a profile
ProfileAcceptedAnyType(s, f) == s.pev_mac = f.pev_mac

ProfileAccepted(s, f) ==
    f.mm_type = "CM_ATTEN_PROFILE.IND" /\ s.pev_mac = f.pev_mac

\* the session after process_sound_frame
SoundFrameSession(s, f) ==
    IF ProfileAccepted(s, f)
    THEN [s EXCEPT !.num_groups = Some(f.num_groups),
                   !.num_total_sounds = @ + 1]
    ELSE s

\* the caller's aag list after process_sound_frame
SoundFrameSums(s, f, sums) ==
    IF ProfileAccepted(s, f)
    THEN [g \in 1..SLAC_GROUPS |->
            IF g <= f.num_groups THEN sums[g] + f.aag[g] ELSE sums[g]]
    ELSE sums

\* the run's record after process_sound_frame: the aag of every profile
\* it has added to the sums
SoundFrameRun(s, f, r) ==
    IF ProfileAccepted(s, f)
    THEN [r EXCEPT !.accepted = @ \cup {f.aag}]
    ELSE r

\* what process_sound_frame returns
SoundFrameNext(f) ==
    IF f.mm_type = "CM_MNBC_SOUND.IND" THEN "CM_ATTEN_PROFILE_IND"
    ELSE IF f.mm_type = "CM_ATTEN_PROFILE.IND" THEN "CM_MNBC_SOUND_IND"
    ELSE "None"

\* ---- cm_sounds_loop
\* time_now_ms() - time_start after d more ms; every value from the read
\* timeout on is past each sounding window and is kept as that one value
Later(t, d) == IF t + d > SoundReadTimeoutMs THEN SoundReadTimeoutMs
               ELSE t + d

\* the averages stored when the loop ends
Averaged(s, sums) ==
    IF s.num_total_sounds > 0
    THEN [s EXCEPT !.aag = [g \in 1..SLAC_GROUPS |->
                              half_round(sums[g], s.num_total_sounds)]]
    ELSE s

\* ---- cm_atten_char, up to the await of send_frame
\* AtennChar.pack_big is outside this file: as documented, the frame is
\* built also when no profile was counted and num_groups is still unset
AttenCharFrame(s) ==
    [OutFrame("CM_ATTEN_CHAR.IND", s.pev_mac, s.evse_mac, s.run_id) EXCEPT
        !.source_address = s.pev_mac,
        !.num_sounds = s.num_total_sounds,
        !.num_groups = s.num_groups,
        !.aag = s.aag]

\* One read of cm_sounds_loop and what follows it up to the next await:
\* the next read of the loop, or, the loop over, the send of cm_atten_char.
cm_sounds_loop(f, d) ==
    /\ task = "running"
    /\ pc = "sounds_rcv"
    /\ step' = "cm_sounds_loop"
    /\ rcvd' = f
    /\ IF next_frame_expected = "None" \/ f.kind # "frame"
       THEN \* readeth or a header parser raised: except Exception
            /\ session' = Unmatched(session)
            /\ Failed("cm_sounds_loop")
            /\ time_elapsed' = IF f.kind = "timeout"
                               THEN Later(time_elapsed, SoundReadTimeoutMs)
                               ELSE Later(time_elapsed, d)
            /\ send_frame(AttenCharFrame(session'), "atten_send")
            /\ UNCHANGED <<aag, next_frame_expected>>
       ELSE IF ~HeaderOk(f)
       THEN \* not HomePlug AV: back to the read
            /\ time_elapsed' = Later(time_elapsed, d)
            /\ UNCHANGED <<session, aag, next_frame_expected, run, sent,
                           task, pc, err>>
       ELSE IF SoundFrameRaises(session, f) # "none"
       THEN /\ Raise(SoundFrameRaises(session, f))
            /\ Failed("cm_sounds_loop")
            /\ time_elapsed' = Later(time_elapsed, d)
            /\ UNCHANGED <<session, aag, next_frame_expected, sent>>
       ELSE /\ aag' = SoundFrameSums(session, f, aag)
            /\ next_frame_expected' = SoundFrameNext(f)
            /\ time_elapsed' = Later(time_elapsed, d)
            /\ LET s == SoundFrameSession(session, f) IN
               IF time_elapsed' < s.time_out_ms
               THEN IF s.num_expected_sounds = None
                    THEN \* int < None
                         /\ session' = s
                         /\ Raise("TypeError")
                         /\ run' = [SoundFrameRun(session, f, run) EXCEPT
                                      !.failed = @ \cup {"cm_sounds_loop"}]
                         /\ UNCHANGED sent
                    ELSE IF s.num_total_sounds < s.num_expected_sounds[1]
                    THEN /\ session' = s
                         /\ run' = SoundFrameRun(session, f, run)
                         /\ UNCHANGED <<sent, task, pc, err>>
                    ELSE /\ session' = Averaged(s, aag')
                         /\ send_frame(AttenCharFrame(session'), "atten_send")
                         /\ run' = SoundFrameRun(session, f, run)
               ELSE /\ session' = Averaged(s, aag')
                    /\ send_frame(AttenCharFrame(session'), "atten_send")
                    /\ run' = SoundFrameRun(session, f, run)
    /\ UNCHANGED <<keyVars, last_cnf>>

\* the ATTEN_CHAR.IND is out: cm_atten_char awaits the response
cm_atten_char_sent ==
    /\ task = "running"
    /\ pc = "atten_send"
    /\ pc' = "atten_rcv"
    /\ aag' = Zeros
    /\ next_frame_expected' = "CM_MNBC_SOUND_IND"
    /\ time_elapsed' = 0
    /\ UNCHANGED <<session, task, err, step, rcvd, keyVars, sent, last_cnf,
                   run>>

\* ---- cm_atten_char, from the response on
AttenCharRspMismatch(s, f) ==
    \/ f.ether_type # "HPAV"
    \/ f.mmv # HOMEPLUG_MMV
    \/ s.run_id # f.run_id

\* the session as cm_atten_char leaves it
AttenCharRsp(s, f) ==
    IF ~Parsed(f) THEN Unmatched(s)
    ELSE LET s1 == IF AttenCharRspMismatch(s, f) THEN Unmatched(s) ELSE s
         IN  IF f.result # 0 THEN Unmatched(s1) ELSE s1

\* an ATTEN_CHAR.RSP of this run that reports success
RspOk(s, f) ==
    /\ Parsed(f)
    /\ HeaderOk(f)
    /\ f.mm_type = "CM_ATTEN_CHAR.RSP"
    /\ f.run_id = s.run_id
    /\ f.result = 0

\* cm_atten_char, whatever its outcome, is followed by cm_slac_match
cm_atten_char(f) ==
    /\ task = "running"
    /\ pc = "atten_rcv"
    /\ step' = "cm_atten_char"
    /\ rcvd' = f
    /\ session' = AttenCharRsp(session, f)
    /\ run' = [run EXCEPT
                 !.rsp_ok = RspOk(session, f),
                 !.failed = IF ~Parsed(f) \/ AttenCharRspMismatch(session, f)
                               \/ f.result # 0
                            THEN @ \cup {"cm_atten_char"} ELSE @]
    /\ pc' = "match_rcv"
    /\ UNCHANGED <<task, err, loopVars, keyVars, sent, last_cnf>>

\* ---- cm_slac_match
SlacMatchMismatch(s, f) ==
    \/ f.ether_type # "HPAV"
    \/ f.mmv # HOMEPLUG_MMV
    \/ f.mm_type # "CM_SLAC_MATCH.REQ"
    \/ f.run_id # s.run_id

SlacMatchSaved(s, f) ==
    [s EXCEPT !.pev_id = Some(f.pev_id), !.pev_mac = f.pev_mac]

MatchCnfFrame(s) ==
    [OutFrame("CM_SLAC_MATCH.CNF", s.pev_mac, s.evse_mac, s.run_id) EXCEPT
        !.pev_mac = s.pev_mac,
        !.evse_mac = s.evse_mac,
        !.nid = s.nid,
        !.nmk = s.nmk]

cm_slac_match(f) ==
    /\ task = "running"
    /\ pc = "match_rcv"
    /\ step' = "cm_slac_match"
    /\ rcvd' = f
    /\ IF ~Parsed(f)
       THEN /\ session' = Unmatched(session)
            /\ Failed("cm_slac_match")
            /\ Return
            /\ UNCHANGED <<sent, last_cnf>>
       ELSE IF SlacMatchMismatch(session, f)
       THEN /\ Raise("ValueError")
            /\ Failed("cm_slac_match")
            /\ UNCHANGED <<session, sent, last_cnf>>
       ELSE /\ session' = SlacMatchSaved(session, f)
            /\ send_frame(MatchCnfFrame(session'), "match_send")
            /\ last_cnf' = IF Len(sent') > Len(sent)
                           THEN Some(MatchCnfFrame(session'))
                           ELSE last_cnf
            /\ UNCHANGED run
    /\ UNCHANGED <<loopVars, keyVars>>

\* the MATCH.CNF is out: the session is Matched and the routine returns
cm_slac_match_sent ==
    /\ task = "running"
    /\ pc = "match_send"
    /\ session' = [session EXCEPT !.state = STATE_MATCHED]
    /\ Return
    /\ UNCHANGED <<step, rcvd, loopVars, keyVars, sent, last_cnf, run>>

\* ---- cancellation
\* the supervisor cancels the task: CancelledError is raised at the await
\* the task is suspended in; no except clause of the steps catches it
\* (it is no subclass of Exception) and none sets the state
cancel ==
    /\ task = "running"
    /\ task' = "cancelled"
    /\ pc' = "done"
    /\ err' = "CancelledError"
    /\ step' = "cancel"
    /\ UNCHANGED <<session, rcvd, loopVars, keyVars, sent, last_cnf, run>>

\* ------------------------------------------------------ specification
Next ==
    \/ StartMatching
    \/ \E f \in ParmInputs : evse_slac_parm(f)
    \/ evse_slac_parm_sent
    \/ \E f \in StartInputs : cm_start_atten_charac(f)
    \/ \E f \in SoundInputs, d \in FrameDelays : cm_sounds_loop(f, d)
    \/ cm_atten_char_sent
    \/ \E f \in AttenRspInputs : cm_atten_char(f)
    \/ \E f \in MatchInputs : cm_slac_match(f)
    \/ cm_slac_match_sent
    \/ cancel
    \/ evse_set_key
    \/ leave_logical_network
    \/ \E payload \in SetKeyCnfInputs : SetKeyCnf(payload)
    \/ SetKeySettled

Spec == Init /\ [][Next]_vars

\* ------------------------------------------------------------ claims
RoutineSteps ==
    {"cm_start_atten_charac", "cm_sounds_loop", "cm_atten_char",
     "cm_slac_match"}

\* the matching task has ended on its own, by a return or by an error
RoutineEnded == task \in {"returned", "raised"}

\* the step of this transition is the reset() of leave_logical_network
ResetStep == key_caller = "leave" /\ key_pc # "idle" /\ key_pc' = "idle"

\* this transition hands a frame to send_frame and the frame goes out
Sends == Len(sent') > Len(sent)

\* C1: when atten_charac_routine has ended and one of its steps failed, the
\* state is Unmatched; the state is Matched only when START_ATTEN_CHAR.IND
\* was accepted, the ATTEN_CHAR.RSP was good and no step failed.
C1_FailedRunEndsUnmatched ==
    /\ (RoutineEnded /\ run.failed \cap RoutineSteps # {})
          => session.state = STATE_UNMATCHED
    /\ (RoutineEnded /\ session.state = STATE_MATCHED)
          => (run.failed = {} /\ run.start_accepted /\ run.rsp_ok)

\* C2: a MATCH.CNF goes out only after START_ATTEN_CHAR.IND was accepted and
\* a good ATTEN_CHAR.RSP was received, and no frame goes out once a step of
\* the run has failed.
C2_NoFrameAfterFailure ==
    [][Sends =>
         /\ run'.failed = {}
         /\ (sent'[Len(sent')].mm_type = "CM_SLAC_MATCH.CNF"
               => (run'.start_accepted /\ run'.rsp_ok))]_vars

\* C3: a MATCH.REQ whose run_id is not the session's leaves the session
\* Unmatched and no MATCH.CNF is sent.
C3_WrongRunIdMatchReqUnmatched ==
    [][(/\ pc = "match_rcv"
        /\ step' = "cm_slac_match"
        /\ Parsed(rcvd')
        /\ HeaderOk(rcvd')
        /\ rcvd'.mm_type = "CM_SLAC_MATCH.REQ"
        /\ rcvd'.run_id # session.run_id)
       => (session'.state = STATE_UNMATCHED /\ sent' = sent)]_vars

\* C4: whenever the state is Matched, nmk and nid are those of the MATCH.CNF
\* sent most recently.
C4_MatchedKeysAreTheSentOnes ==
    session.state = STATE_MATCHED
      => /\ last_cnf # None
         /\ session.nmk = last_cnf[1].nmk
         /\ session.nid = last_cnf[1].nid

\* C5: every frame sent carries the session's run_id, which is the run_id
\* of the PARM.REQ this run accepted.
C5_SentRunIdIsParmRunId ==
    [][Sends =>
         /\ sent'[Len(sent')].run_id = session'.run_id
         /\ session'.run_id = run'.parm_run_id]_vars

\* C6: a matching task that is cancelled leaves the session Unmatched.
C6_CancelledTaskUnmatched ==
    [][(task = "running" /\ task' = "cancelled")
       => session'.state = STATE_UNMATCHED]_vars

\* C7: a matching task ends with an error only when a socket operation
\* raised; every other failure ends its step normally, state Unmatched
\* (the read timeout of evse_slac_parm, the case of C27, set aside).
C7_OnlyIoErrorsPropagate ==
    /\ (task = "raised" /\ err # "TimeoutError") => err = "OSError"
    /\ (RoutineEnded /\ run.failed # {} /\ err # "OSError")
          => session.state = STATE_UNMATCHED

\* C8: reset() leaves nmk, nid, evse_mac and evse_id as they were.
C8_ResetKeepsIdentity ==
    [][ResetStep =>
         /\ session'.nmk = session.nmk
         /\ session'.nid = session.nid
         /\ session'.evse_mac = session.evse_mac
         /\ session'.evse_id = session.evse_id]_vars

\* C9: after reset() every run-scoped field has the default of a freshly
\* constructed session, aag being 58 zeros.
C9_ResetRestoresDefaults ==
    [][ResetStep =>
         /\ session'.state = STATE_UNMATCHED
         /\ session'.run_id = Empty
         /\ session'.pev_mac = Empty
         /\ session'.forwarding_sta = Empty
         /\ session'.pev_id = None
         /\ session'.num_expected_sounds = None
         /\ session'.num_groups = None
         /\ session'.num_total_sounds = 0
         /\ session'.aag = NewSession.aag]_vars

\* C10: leave_logical_network resets after evse_set_key has returned, ends
\* with state Unmatched, and a matching task the session refers to is
\* cancelled by then.
C10_LeaveCancelsTask ==
    [][ResetStep =>
         /\ session'.state = STATE_UNMATCHED
         /\ (session.matching_process_task # None /\ task = "running")
               => task' = "cancelled"]_vars

\* the step of this transition is evse_set_key's handling of what
\* send_recv_eth returned
SetKeyCnfStep == key_pc = "cnf" /\ key_pc' # "cnf"

\* C11: evse_set_key commits the new nmk/nid pair only when the SET_KEY.CNF
\* parsed and did not indicate an error; otherwise nmk and nid keep their
\* values.
C11_SetKeyCommitsOnlyOnSuccess ==
    [][SetKeyCnfStep =>
         IF payload_rcvd'.parses /\ payload_rcvd'.result # 255
         THEN session'.nmk = key_new.nmk /\ session'.nid = key_new.nid
         ELSE session'.nmk = session.nmk /\ session'.nid = session.nid]_vars

\* this transition is one read of cm_sounds_loop with what follows it
LoopRead ==
    /\ task = "running"
    /\ pc = "sounds_rcv"
    /\ step' = "cm_sounds_loop"
    /\ key_pc' = key_pc

\* the read returned a frame that reaches process_sound_frame
LoopFrame == LoopRead /\ next_frame_expected # "None" /\ Parsed(rcvd')
               /\ HeaderOk(rcvd')

\* after this transition the loop is at its next read
LoopGoesOn == task' = "running" /\ pc' = "sounds_rcv"

\* the read returned an MNBC_SOUND.IND of another run
MnbcWrongRun ==
    /\ LoopFrame
    /\ rcvd'.mm_type = "CM_MNBC_SOUND.IND"
    /\ rcvd'.run_id # session.run_id

MnbcIgnored ==
    /\ session'.num_total_sounds = session.num_total_sounds
    /\ aag' = aag
    /\ session'.state = session.state

\* C12 (as the code has it): an MNBC_SOUND.IND with another run_id leaves
\* num_total_sounds, the sums and the state unchanged, and the loop reads
\* the next frame exactly when time remains in the window and fewer sounds
\* than were announced have been counted.
C12_WrongRunIdSoundIgnored ==
    [][MnbcWrongRun =>
         /\ MnbcIgnored
         /\ LoopGoesOn <=>
              (/\ time_elapsed' < session.time_out_ms
               /\ session.num_expected_sounds # None
               /\ session.num_total_sounds < session.num_expected_sounds[1])
      ]_vars

\* C12 as stated, for the runs in which the number of sounds was announced:
\* the frame is ignored and the loop always goes on to read the next frame.
C12_WrongRunIdLoopAlwaysContinues ==
    [][(MnbcWrongRun /\ session.num_expected_sounds # None)
       => (MnbcIgnored /\ LoopGoesOn)]_vars

\* C12's case: in a run whose START_ATTEN_CHAR.IND was accepted the loop
\* has taken an MNBC_SOUND.IND of another run and is at its next read
C12_Witness ==
    /\ task = "running"
    /\ pc = "sounds_rcv"
    /\ step = "cm_sounds_loop"
    /\ run.start_accepted
    /\ session.run_id = run.parm_run_id
    /\ Parsed(rcvd)
    /\ HeaderOk(rcvd)
    /\ rcvd.mm_type = "CM_MNBC_SOUND.IND"
    /\ rcvd.run_id # session.run_id
    /\ next_frame_expected = "CM_ATTEN_PROFILE_IND"

\* a read of the loop, begun while time remained in the window that an
\* accepted START_ATTEN_CHAR.IND opened, timed out
ReadTimeout ==
    /\ LoopRead
    /\ run.start_accepted
    /\ next_frame_expected # "None"
    /\ rcvd'.kind = "timeout"
    /\ time_elapsed < session.time_out_ms

LoopReturns ==
    /\ LoopRead
    /\ ~LoopGoesOn
    /\ err' \notin {"TypeError", "ValueError"}

\* C14: when cm_sounds_loop returns with num_total_sounds > 0, every
\* session.aag[g] is the rounded average of the sums over num_total_sounds
\* and lies between the least and the greatest aag[g] of the accepted
\* profiles.
C14_AagIsAverageOfAccepted ==
    [][(LoopReturns /\ session'.num_total_sounds > 0) =>
         \A g \in 1..SLAC_GROUPS :
            /\ session'.aag[g] = half_round(aag'[g], session'.num_total_sounds)
            /\ \E a \in run'.accepted : a[g] <= session'.aag[g]
            /\ \E a \in run'.accepted : session'.aag[g] <= a[g]]_vars

\* C15: when cm_sounds_loop returns, num_total_sounds is at most the
\* announced num_expected_sounds, or the sounding window has timed out.
C15_SoundsWithinExpected ==
    [][LoopReturns =>
         \/ /\ session'.num_expected_sounds # None
            /\ session'.num_total_sounds <= session'.num_expected_sounds[1]
         \/ time_elapsed' >= session'.time_out_ms]_vars

\* C16: the state becomes Matching only as evse_slac_parm ends, a PARM.REQ
\* received and the PARM.CNF sent to the vehicle's MAC with forwarding_sta
\* that MAC; the session then holds the request's run_id, application_type
\* and security_type, and its Ethernet source as pev_mac and forwarding_sta.
C16_MatchingAfterParmExchange ==
    [][(session.state # STATE_MATCHING /\ session'.state = STATE_MATCHING) =>
         /\ pc = "parm_send"
         /\ rcvd.mm_type = "CM_SLAC_PARM.REQ"
         /\ Len(sent) > 0
         /\ sent[Len(sent)].mm_type = "CM_SLAC_PARM.CNF"
         /\ sent[Len(sent)].dst_mac = rcvd.src_mac
         /\ sent[Len(sent)].forwarding_sta = rcvd.src_mac
         /\ session'.run_id = rcvd.run_id
         /\ session'.application_type = rcvd.application_type
         /\ session'.security_type = rcvd.security_type
         /\ session'.pev_mac = rcvd.src_mac
         /\ session'.forwarding_sta = rcvd.src_mac]_vars

\* C17: in every state nid has 7 bytes, the two most significant bits of
\* its last byte clear, and nmk has 16 bytes.
C17_KeyShapes ==
    /\ Len(session.nid) = 7
    /\ session.nid[7] < 64
    /\ Len(session.nmk) = 16

\* a step outside the sounding loop received a frame that parses but whose
\* mm_type, run_id or resp_type is not the expected one
ProtocolMismatch ==
    /\ task = "running"
    /\ Parsed(rcvd')
    /\ \/ /\ pc = "parm_rcv"
          /\ step' = "evse_slac_parm"
          /\ rcvd'.mm_type # "CM_SLAC_PARM.REQ"
       \/ /\ pc = "start_rcv"
          /\ step' = "cm_start_atten_charac"
          /\ \/ rcvd'.mm_type # "CM_START_ATTEN_CHAR.IND"
             \/ rcvd'.run_id # session.run_id
             \/ rcvd'.resp_type # SLAC_RESP_TYPE
       \/ /\ pc = "atten_rcv"
          /\ step' = "cm_atten_char"
          /\ \/ rcvd'.mm_type # "CM_ATTEN_CHAR.RSP"
             \/ rcvd'.run_id # session.run_id
       \/ /\ pc = "match_rcv"
          /\ step' = "cm_slac_match"
          /\ \/ rcvd'.mm_type # "CM_SLAC_MATCH.REQ"
             \/ rcvd'.run_id # session.run_id

\* C18: outside the sounding loop a frame with a wrong mm_type, run_id or
\* resp_type leaves the session Unmatched.
C18_MismatchOutsideLoopUnmatched ==
    [][ProtocolMismatch => session'.state = STATE_UNMATCHED]_vars

\* the read returned an MNBC_SOUND.IND of this run from another MAC
MnbcWrongSource ==
    /\ LoopFrame
    /\ rcvd'.mm_type = "CM_MNBC_SOUND.IND"
    /\ rcvd'.run_id = session.run_id
    /\ rcvd'.src_mac # session.pev_mac

\* C19: an MNBC_SOUND.IND of this run from a MAC that is not pev_mac is
\* dropped: no session field changes, the task does not end, and the loop
\* reads the next frame when time remains and sounds are still expected.
C19_WrongSourceSoundDropped ==
    [][MnbcWrongSource =>
         /\ session' = session
         /\ task' = "running"
         /\ (/\ time_elapsed' < session.time_out_ms
             /\ session.num_expected_sounds # None
             /\ session.num_total_sounds < session.num_expected_sounds[1])
               => LoopGoesOn]_vars

\* C20: once a profile has been accepted in the sound loop, a later
\* accepted profile does not change session.num_groups.
C20_FirstNumGroupsWins ==
    [][(/\ LoopFrame
        /\ ProfileAccepted(session, rcvd')
        /\ session.num_total_sounds > 0
        /\ session.num_groups # None)
       => session'.num_groups = session.num_groups]_vars

\* this transition is cm_start_atten_charac
StartStep ==
    /\ task = "running"
    /\ pc = "start_rcv"
    /\ step' = "cm_start_atten_charac"

\* C21: cm_start_atten_charac records num_expected_sounds and the window
\* ATTEN_RESULTS_TIMEOUT * 100 ms only for a START_ATTEN_CHAR.IND whose
\* application_type, security_type and run_id are the session's and whose
\* resp_type is 1; otherwise both stay as they were and the state is
\* Unmatched.
C21_StartRecordsOnlyWhenValid ==
    [][StartStep =>
         IF /\ Parsed(rcvd')
            /\ rcvd'.mm_type = "CM_START_ATTEN_CHAR.IND"
            /\ rcvd'.application_type = session.application_type
            /\ rcvd'.security_type = session.security_type
            /\ rcvd'.run_id = session.run_id
            /\ rcvd'.resp_type = 1
         THEN /\ session'.num_expected_sounds = Some(rcvd'.num_sounds)
              /\ session'.time_out_ms = ATTEN_RESULTS_TIMEOUT * 100
         ELSE /\ session'.num_expected_sounds = session.num_expected_sounds
              /\ session'.time_out_ms = session.time_out_ms
              /\ session'.state = STATE_UNMATCHED]_vars

\* C21's case: a START_ATTEN_CHAR.IND of this run was accepted and its
\* num_sounds and the 900 ms window are recorded
C21_Witness ==
    /\ step = "cm_start_atten_charac"
    /\ pc = "sounds_rcv"
    /\ rcvd.mm_type = "CM_START_ATTEN_CHAR.IND"
    /\ rcvd.run_id = session.run_id
    /\ session.num_expected_sounds = Some(rcvd.num_sounds)
    /\ session.time_out_ms = ATTEN_RESULTS_TIMEOUT * 100
    /\ session.state = STATE_MATCHING

\* time remains in the window and sounds are still expected: without the
\* frame of this transition the loop would be at a read
LoopStillOpen ==
    /\ time_elapsed' < session.time_out_ms
    /\ session.num_expected_sounds # None
    /\ session.num_total_sounds < session.num_expected_sounds[1]

\* the loop read a second START_ATTEN_CHAR.IND of the run whose first one
\* was accepted
DuplicateStart ==
    /\ LoopFrame
    /\ run.start_accepted
    /\ rcvd'.mm_type = "CM_START_ATTEN_CHAR.IND"
    /\ rcvd'.run_id = session.run_id

\* C22: a duplicate START_ATTEN_CHAR.IND read by cm_sounds_loop changes
\* nothing: the session, the sums and the loop's progress (its expected
\* frame size, its being at a read) are as without it.
C22_DuplicateStartChangesNothing ==
    [][(DuplicateStart /\ LoopStillOpen) =>
         /\ session' = session
         /\ aag' = aag
         /\ next_frame_expected' = next_frame_expected
         /\ LoopGoesOn]_vars

\* the loop, num_expected_sounds unset, read a sound or a profile that
\* process_sound_frame takes without raising
FrameWithoutExpected ==
    /\ LoopFrame
    /\ session.num_expected_sounds = None
    /\ rcvd'.mm_type \in {"CM_MNBC_SOUND.IND", "CM_ATTEN_PROFILE.IND"}
    /\ SoundFrameRaises(session, rcvd') = "none"

\* C23: with num_expected_sounds unset the loop goes by the time window
\* alone: it reads on while elapsed < time_out_ms and ends without an
\* error once the window is over.
C23_UnsetExpectedUsesWindow ==
    [][FrameWithoutExpected =>
         /\ task' # "raised" \/ err' = "OSError"
         /\ (time_elapsed' < session.time_out_ms) => LoopGoesOn
         /\ (time_elapsed' >= session.time_out_ms) => ~LoopGoesOn]_vars

\* C24: at every read of cm_sounds_loop the expected frame size is the
\* MNBC_SOUND.IND size or the ATTEN_PROFILE.IND size.
C24_NextFrameSizeDefined ==
    (task = "running" /\ pc = "sounds_rcv")
      => next_frame_expected \in {"CM_MNBC_SOUND_IND", "CM_ATTEN_PROFILE_IND"}

\* C26, for a session that leave_logical_network has not reset under the
\* task: every frame sent has the session's evse_mac as Ethernet source
\* and, as Ethernet destination, the source MAC of the run's PARM.REQ.
C26_SentFramesAddressedToPev ==
    [][(Sends /\ session'.matching_process_task # None) =>
         /\ sent'[Len(sent')].src_mac = session'.evse_mac
         /\ sent'[Len(sent')].dst_mac = run'.parm_src]_vars

\* evse_slac_parm ran and did not accept a PARM.REQ
ParmNotAccepted ==
    /\ task = "running"
    /\ pc = "parm_rcv"
    /\ step' = "evse_slac_parm"
    /\ \/ rcvd'.kind \in {"timeout", "malformed"}
       \/ rcvd'.mm_type # "CM_SLAC_PARM.REQ"

\* C27: when evse_slac_parm does not accept a PARM.REQ it returns with the
\* state Unmatched, sends nothing, and leaves run_id, application_type,
\* security_type, pev_mac and forwarding_sta as they were.
C27_ParmRejectedReturnsUnmatched ==
    [][ParmNotAccepted =>
         /\ task' = "returned"
         /\ session'.state = STATE_UNMATCHED
         /\ sent' = sent
         /\ session'.run_id = session.run_id
         /\ session'.application_type = session.application_type
         /\ session'.security_type = session.security_type
         /\ session'.pev_mac = session.pev_mac
         /\ session'.forwarding_sta = session.forwarding_sta]_vars

\* The event loop resumes the task whenever a read of cm_sounds_loop
\* returns, and wait_for makes every read return within its timeout.
LiveSpec ==
    Spec /\ WF_vars(\E f \in SoundInputs, d \in FrameDelays :
                       cm_sounds_loop(f, d))

\* the task is at a read of cm_sounds_loop
InSoundsLoop == task = "running" /\ pc = "sounds_rcv"

\* C25: whatever frames arrive, once the elapsed time has reached
\* time_out_ms cm_sounds_loop eventually exits.
C25_SoundsLoopTerminates ==
    (InSoundsLoop /\ time_elapsed >= session.time_out_ms) ~> ~InSoundsLoop

====
